---------------------------- MODULE Spec2Model ----------------------------
(***************************************************************************)
(* easy-ecs: the CDK entry point (bin, src/unnamed/part_000) resolves      *)
(* project, version and environment from the app context and package.json, *)
(* writes them back to the context, and constructs EcrStack, EcsStack and  *)
(* ObservabilityStack, each of which reads the context again and derives   *)
(* names and tags from it.                                                 *)
(*                                                                         *)
(* A JavaScript string is a sequence of one-character strings, so that     *)
(* toLowerCase and template literals are computed character by character.  *)
(* A JavaScript value is a record [t, s, n]: t is its type, s its          *)
(* characters when a string, n its number when a number.  The constructs   *)
(* of aws-cdk-lib (Stack, Tags, ecr.Repository, ContainerDefinition,       *)
(* ApplicationLoadBalancedFargateService, CfnGroup, CfnAppMonitor) are     *)
(* modelled as recording the ids and props the code hands them.            *)
(***************************************************************************)
EXTENDS Integers, Sequences, FiniteSets, TLC

\* ------------------------------------------------------------ bounds
\* Largest desiredCount override drawn.
MaxCount == 2
\* How many times the resolution step may be applied again (SpecAgain).
MaxRuns == 2

\* ------------------------------------------------------- JS values
Undefined == [t |-> "undefined", s |-> <<>>, n |-> 0]
Str(chars) == [t |-> "string", s |-> chars, n |-> 0]
Num(k) == [t |-> "number", s |-> <<>>, n |-> k]

IsString(v) == v.t = "string"

\* JavaScript truthiness, as the ?: of the entry point and the || of the
\* stacks test it: undefined, "" and 0 are falsy.
Truthy(v) ==
  CASE v.t = "undefined" -> FALSE
    [] v.t = "string" -> v.s # <<>>
    [] v.t = "number" -> v.n # 0

UpperChars ==
  <<"A","B","C","D","E","F","G","H","I","J","K","L","M",
    "N","O","P","Q","R","S","T","U","V","W","X","Y","Z">>
LowerChars ==
  <<"a","b","c","d","e","f","g","h","i","j","k","l","m",
    "n","o","p","q","r","s","t","u","v","w","x","y","z">>

LowerChar(c) ==
  IF \E i \in DOMAIN UpperChars : UpperChars[i] = c
    THEN LowerChars[CHOOSE i \in DOMAIN UpperChars : UpperChars[i] = c]
    ELSE c

\* String.prototype.toLowerCase on the characters of a string.
toLowerCase(chars) == [i \in DOMAIN chars |-> LowerChar(chars[i])]

\* ${v} in a template literal, for the values the templates of this program
\* receive: a string, or undefined.
Template(v) ==
  CASE v.t = "string" -> v.s
    [] v.t = "undefined" -> <<"u","n","d","e","f","i","n","e","d">>

Contains(chars, c) == \E i \in DOMAIN chars : chars[i] = c

\* ------------------------------------------------- string literals
Dash == <<"-">>
Dev == <<"d","e","v">>
Latest == <<"l","a","t","e","s","t">>
Localhost == <<"l","o","c","a","l","h","o","s","t">>
NginxNginx == <<"n","g","i","n","x","/","n","g","i","n","x">>
SufEcr == <<"-","e","c","r">>
SufEcs == <<"-","e","c","s">>
SufObservability ==
  <<"-","o","b","s","e","r","v","a","b","i","l","i","t","y">>
SufEcrRepository ==
  <<"-","e","c","r","-","r","e","p","o","s","i","t","o","r","y">>
SufContainer == <<"-","c","o","n","t","a","i","n","e","r">>

\* ---------------------------------------------------------- inputs
\* What the operator may put in the context (cdk.json, --context) and what
\* package.json holds.
Shop == <<"S","h","o","p">>
Api == <<"a","p","i">>
EuApi == <<"e","u","-","a","p","i">>
Prod == <<"P","r","o","d">>
DevEu == <<"d","e","v","-","e","u">>
Svc == <<"s","v","c">>
MyApp == <<"M","y","A","p","p">>
V100 == <<"1",".","0",".","0">>
V200 == <<"2",".","0",".","0">>
BadName == <<"b","a","d","n","a","m","e">>
UserRepo == <<"u","s","e","r","/","r","e","p","o">>
Tag6 == <<"6">>
ShopCom == <<"s","h","o","p",".","c","o","m">>

ProjectOverrides == {Undefined, Str(<<>>), Str(Shop), Str(Api), Str(EuApi)}
EnvironmentOverrides == {Undefined, Str(<<>>), Str(Prod), Str(DevEu)}
VersionOverrides == {Undefined, Str(<<>>), Str(V200)}
EcrRepoNameOverrides == {Undefined, Str(BadName), Str(UserRepo)}
EcrImageTagOverrides == {Undefined, Str(Tag6)}
DomainNameOverrides == {Undefined, Str(ShopCom)}
DesiredCountOverrides == {Undefined} \cup {Num(k) : k \in 0..MaxCount}
Manifests == {[name |-> Svc, version |-> V100], [name |-> MyApp, version |-> V200]}

Keys ==
  {"project", "version", "environment", "ecrRepoName", "ecrImageTag",
   "domainName", "desiredCount"}

\* ----------------------------------------------------------- state
VARIABLES
  overrides,      \* the context as the operator supplied it (never changes)
  packageJson,    \* the parsed package.json
  context,        \* app.node's context
  pc,             \* the next statement of the entry point
  project,        \* const project of the entry point
  version,        \* const version of the entry point
  environment,    \* const environment of the entry point
  ecrStack,       \* what new EcrStack(...) declared
  ecsStack,       \* what new EcsStack(...) declared
  observabilityStack, \* what new ObservabilityStack(...) declared
  writes,         \* history: the number of setContext calls per key
  first,          \* history: the record as first resolved
  runs            \* history: how often the resolution step was applied again

vars ==
  <<overrides, packageJson, context, pc, project, version, environment,
    ecrStack, ecsStack, observabilityStack, writes, first, runs>>

NoStack == [constructed |-> FALSE]
NoRecord == [project |-> Undefined, version |-> Undefined, environment |-> Undefined]

\* ------------------------------------------------------- the context
tryGetContext(ctx, key) == ctx[key]

\* Mutant: the value is normalised to lower case as it is written.
setContext_LowerCased(ctx, key, value) ==
  [ctx EXCEPT ![key] = IF IsString(value) THEN Str(toLowerCase(value.s)) ELSE value]

setContext(ctx, key, value) == [ctx EXCEPT ![key] = value]

\* ------------------------------------------- entry point: resolution
\* Mutant: the override is lower-cased instead of kept verbatim.
ResolveProject_LowerCased(ctx, pkg) ==
  IF Truthy(tryGetContext(ctx, "project"))
    THEN Str(toLowerCase(tryGetContext(ctx, "project").s))
    ELSE Str(pkg.name)

ResolveProject(ctx, pkg) ==
  IF Truthy(tryGetContext(ctx, "project"))
    THEN tryGetContext(ctx, "project")
    ELSE Str(pkg.name)

ResolveVersion(ctx, pkg) ==
  IF Truthy(tryGetContext(ctx, "version"))
    THEN tryGetContext(ctx, "version")
    ELSE Str(pkg.version)

ResolveEnvironment(ctx) ==
  IF Truthy(tryGetContext(ctx, "environment"))
    THEN tryGetContext(ctx, "environment")
    ELSE Str(Dev)

\* ---------------------------------------------- entry point: stack ids
EcrStackId(env, proj) ==
  toLowerCase(Template(env) \o Dash \o Template(proj) \o SufEcr)

\* Mutant: the suffix of the stack above, copied.
EcsStackId_EcrSuffix(env, proj) ==
  toLowerCase(Template(env) \o Dash \o Template(proj) \o SufEcr)

EcsStackId(env, proj) ==
  toLowerCase(Template(env) \o Dash \o Template(proj) \o SufEcs)

ObservabilityStackId(env, proj) ==
  toLowerCase(Template(env) \o Dash \o Template(proj) \o SufObservability)

\* ------------------------------------------------------------ EcrStack
EcrStackTags(proj, env) ==
  [project |-> toLowerCase(proj.s), environment |-> toLowerCase(env.s)]

EcrRepositoryName(proj, env) ==
  Template(env) \o Dash \o toLowerCase(proj.s) \o SufEcrRepository

EcrStack(ctx, id) ==
  LET proj == tryGetContext(ctx, "project")
      env == tryGetContext(ctx, "environment")
  IN [constructed |-> TRUE,
      id |-> id,
      readProject |-> proj,
      readEnvironment |-> env,
      tags |-> EcrStackTags(proj, env),
      repositoryName |-> EcrRepositoryName(proj, env)]

\* ------------------------------------------------------------ EcsStack
\* Mutant: the project tag is not lower-cased.
EcsStackTags_Verbatim(proj, env) ==
  [project |-> proj.s, environment |-> toLowerCase(env.s)]

EcsStackTags(proj, env) ==
  [project |-> toLowerCase(proj.s), environment |-> toLowerCase(env.s)]

EcsImageTag(ctx) ==
  IF Truthy(tryGetContext(ctx, "ecrImageTag"))
    THEN tryGetContext(ctx, "ecrImageTag")
    ELSE Str(Latest)

EcsContainerName(proj, env) ==
  toLowerCase(Template(env) \o Dash \o Template(proj) \o SufContainer)

EcsDesiredCount(desiredCount) ==
  IF Truthy(desiredCount) THEN desiredCount ELSE Num(1)

EcsStack(ctx, id) ==
  LET proj == tryGetContext(ctx, "project")
      env == tryGetContext(ctx, "environment")
      desiredCount == tryGetContext(ctx, "desiredCount")
      ecrRepoName == tryGetContext(ctx, "ecrRepoName")
  IN [constructed |-> TRUE,
      id |-> id,
      readProject |-> proj,
      readEnvironment |-> env,
      tags |-> EcsStackTags(proj, env),
      ecrRepoName |-> ecrRepoName,
      ecrImageTag |-> EcsImageTag(ctx),
      containerName |-> EcsContainerName(proj, env),
      desiredCount |-> EcsDesiredCount(desiredCount)]

\* -------------------------------------------------- ObservabilityStack
ObservabilityStackTags(proj, env) ==
  [project |-> toLowerCase(proj.s), environment |-> toLowerCase(env.s)]

ResourceGroupName(proj, env) ==
  toLowerCase(Template(env) \o Dash \o Template(proj))

ResourceGroupTagFilters(proj, env) ==
  [project |-> Template(proj), environment |-> Template(env)]

RumDomain(domainName) ==
  IF Truthy(domainName) THEN domainName ELSE Str(Localhost)

ObservabilityStack(ctx, id) ==
  LET proj == tryGetContext(ctx, "project")
      env == tryGetContext(ctx, "environment")
      domainName == tryGetContext(ctx, "domainName")
  IN [constructed |-> TRUE,
      id |-> id,
      readProject |-> proj,
      readEnvironment |-> env,
      tags |-> ObservabilityStackTags(proj, env),
      groupName |-> ResourceGroupName(proj, env),
      tagFilters |-> ResourceGroupTagFilters(proj, env),
      domain |-> RumDomain(domainName)]

\* x.toLowerCase() throws a TypeError unless x is a string.
CanLowerCase(ctx) ==
  /\ IsString(tryGetContext(ctx, "project"))
  /\ IsString(tryGetContext(ctx, "environment"))

\* ----------------------------------------------------------- Init
Init ==
  /\ overrides \in
       [project : ProjectOverrides, version : VersionOverrides,
        environment : EnvironmentOverrides,
        ecrRepoName : EcrRepoNameOverrides,
        ecrImageTag : EcrImageTagOverrides,
        domainName : DomainNameOverrides,
        desiredCount : DesiredCountOverrides]
  /\ packageJson \in Manifests
  /\ context = overrides
  /\ pc = "resolveProject"
  /\ project = Undefined
  /\ version = Undefined
  /\ environment = Undefined
  /\ ecrStack = NoStack
  /\ ecsStack = NoStack
  /\ observabilityStack = NoStack
  /\ writes = [k \in Keys |-> 0]
  /\ first = NoRecord
  /\ runs = 0

\* --------------------------------------------------------- actions
EntryProject ==
  /\ pc = "resolveProject"
  /\ project' = ResolveProject(context, packageJson)
  /\ context' = setContext(context, "project", project')
  /\ writes' = [writes EXCEPT !["project"] = @ + 1]
  /\ pc' = "resolveVersion"
  /\ UNCHANGED <<overrides, packageJson, version, environment, ecrStack,
                 ecsStack, observabilityStack, first, runs>>

EntryVersion ==
  /\ pc = "resolveVersion"
  /\ version' = ResolveVersion(context, packageJson)
  /\ context' = setContext(context, "version", version')
  /\ writes' = [writes EXCEPT !["version"] = @ + 1]
  /\ pc' = "resolveEnvironment"
  /\ UNCHANGED <<overrides, packageJson, project, environment, ecrStack,
                 ecsStack, observabilityStack, first, runs>>

\* Mutant: the resolved environment is not written back to the context.
EntryEnvironment_NoWrite ==
  /\ pc = "resolveEnvironment"
  /\ environment' = ResolveEnvironment(context)
  /\ first' = [project |-> project, version |-> version,
               environment |-> environment']
  /\ pc' = "newEcrStack"
  /\ UNCHANGED <<overrides, packageJson, context, project, version, ecrStack,
                 ecsStack, observabilityStack, writes, runs>>

EntryEnvironment ==
  /\ pc = "resolveEnvironment"
  /\ environment' = ResolveEnvironment(context)
  /\ context' = setContext(context, "environment", environment')
  /\ writes' = [writes EXCEPT !["environment"] = @ + 1]
  /\ first' = [project |-> project, version |-> version,
               environment |-> environment']
  /\ pc' = "newEcrStack"
  /\ UNCHANGED <<overrides, packageJson, project, version, ecrStack,
                 ecsStack, observabilityStack, runs>>

NewEcrStack ==
  /\ pc = "newEcrStack"
  /\ IF CanLowerCase(context)
       THEN /\ ecrStack' = EcrStack(context, EcrStackId(environment, project))
            /\ pc' = "newEcsStack"
       ELSE /\ pc' = "TypeError"
            /\ UNCHANGED ecrStack
  /\ UNCHANGED <<overrides, packageJson, context, project, version,
                 environment, ecsStack, observabilityStack, writes, first,
                 runs>>

\* Mutant: a repository name without "/" is refused.
NewEcsStack_Validating ==
  /\ pc = "newEcsStack"
  /\ LET ecrRepoName == tryGetContext(context, "ecrRepoName")
     IN IsString(ecrRepoName) => Contains(ecrRepoName.s, "/")
  /\ IF CanLowerCase(context)
       THEN /\ ecsStack' = EcsStack(context, EcsStackId(environment, project))
            /\ pc' = "newObservabilityStack"
       ELSE /\ pc' = "TypeError"
            /\ UNCHANGED ecsStack
  /\ UNCHANGED <<overrides, packageJson, context, project, version,
                 environment, ecrStack, observabilityStack, writes, first,
                 runs>>

NewEcsStack ==
  /\ pc = "newEcsStack"
  /\ IF CanLowerCase(context)
       THEN /\ ecsStack' = EcsStack(context, EcsStackId(environment, project))
            /\ pc' = "newObservabilityStack"
       ELSE /\ pc' = "TypeError"
            /\ UNCHANGED ecsStack
  /\ UNCHANGED <<overrides, packageJson, context, project, version,
                 environment, ecrStack, observabilityStack, writes, first,
                 runs>>

NewObservabilityStack ==
  /\ pc = "newObservabilityStack"
  /\ IF CanLowerCase(context)
       THEN /\ observabilityStack' =
                 ObservabilityStack(context,
                                    ObservabilityStackId(environment, project))
            /\ pc' = "done"
       ELSE /\ pc' = "TypeError"
            /\ UNCHANGED observabilityStack
  /\ UNCHANGED <<overrides, packageJson, context, project, version,
                 environment, ecrStack, ecsStack, writes, first, runs>>

Next ==
  \/ EntryProject
  \/ EntryVersion
  \/ EntryEnvironment
  \/ NewEcrStack
  \/ NewEcsStack
  \/ NewObservabilityStack

Spec == Init /\ [][Next]_vars

\* The statements of the entry point that resolve project, version and
\* environment, applied once more to the app they have already written to.
\* Node.setContext refuses once the app has children, so this is possible
\* only before the first stack is constructed.
ResolveAgain ==
  /\ pc = "newEcrStack"
  /\ runs < MaxRuns
  /\ LET p == ResolveProject(context, packageJson)
         c1 == setContext(context, "project", p)
         v == ResolveVersion(c1, packageJson)
         c2 == setContext(c1, "version", v)
         e == ResolveEnvironment(c2)
         c3 == setContext(c2, "environment", e)
     IN /\ project' = p
        /\ version' = v
        /\ environment' = e
        /\ context' = c3
  /\ writes' = [k \in Keys |->
                  IF k \in {"project", "version", "environment"}
                    THEN writes[k] + 1 ELSE writes[k]]
  /\ runs' = runs + 1
  /\ UNCHANGED <<overrides, packageJson, pc, ecrStack, ecsStack,
                 observabilityStack, first>>

NextAgain == Next \/ ResolveAgain

SpecAgain == Init /\ [][NextAgain]_vars

\* ============================================================ claims
Resolved == pc \in {"newEcrStack", "newEcsStack", "newObservabilityStack", "done"}
AllConstructed ==
  ecrStack.constructed /\ ecsStack.constructed /\ observabilityStack.constructed
\* An override that is present and non-empty.
Supplied(v) == v.t = "string" /\ Len(v.s) > 0
\* lowercase(environment) + "-" + lowercase(project) + suffix
Canonical(env, proj, suffix) ==
  toLowerCase(env.s) \o Dash \o toLowerCase(proj.s) \o suffix
NoOverrides == \A k \in Keys : overrides[k] = Undefined

\* C1: once resolved, project is the project override when that is present
\* and non-empty and otherwise package.json's name; version is the version
\* override when present and non-empty and otherwise package.json's version;
\* environment is the environment override when present and non-empty and
\* otherwise "dev".  The override is kept verbatim.
C1_Precedence ==
  Resolved =>
    /\ project = IF Supplied(overrides.project)
                   THEN overrides.project ELSE Str(packageJson.name)
    /\ version = IF Supplied(overrides.version)
                   THEN overrides.version ELSE Str(packageJson.version)
    /\ environment = IF Supplied(overrides.environment)
                       THEN overrides.environment ELSE Str(<<"d","e","v">>)

C1_Witness ==
  /\ pc = "done"
  /\ overrides.project = Str(<<"S","h","o","p">>)
  /\ project = Str(<<"S","h","o","p">>)
  /\ overrides.version = Str(<<>>)
  /\ version = Str(packageJson.version)
  /\ overrides.environment = Undefined
  /\ environment = Str(<<"d","e","v">>)

\* C2: with no overrides and package.json {name: "svc", version: "1.0.0"},
\* the units receive environment "dev", ecrRepoName "nginx/nginx",
\* ecrImageTag "latest", domainName "localhost" and desiredCount 1.
C2_Defaults ==
  (AllConstructed /\ NoOverrides /\ packageJson = [name |-> Svc, version |-> V100]) =>
    /\ environment = Str(<<"d","e","v">>)
    /\ ecsStack.readEnvironment = Str(<<"d","e","v">>)
    /\ ecsStack.ecrRepoName = Str(NginxNginx)
    /\ ecsStack.ecrImageTag = Str(Latest)
    /\ observabilityStack.domain = Str(Localhost)
    /\ ecsStack.desiredCount = Num(1)

\* C3: every derived identifier (the three stack ids, the ECR repository
\* name, the container name) is lowercase(environment) + "-" +
\* lowercase(project) + "-" + suffix.
C3_CanonicalIds ==
  /\ ecrStack.constructed =>
       /\ ecrStack.id = Canonical(environment, project, SufEcr)
       /\ ecrStack.repositoryName =
            Canonical(environment, project, SufEcrRepository)
  /\ ecsStack.constructed =>
       /\ ecsStack.id = Canonical(environment, project, SufEcs)
       /\ ecsStack.containerName =
            Canonical(environment, project, SufContainer)
  /\ observabilityStack.constructed =>
       observabilityStack.id = Canonical(environment, project, SufObservability)

\* C4: every constructed unit carries the tag pair {project:
\* lowercase(project), environment: lowercase(environment)}, so that after
\* all three are constructed they carry the same pair.
C4_UniformTags ==
  LET expected == [project |-> toLowerCase(project.s),
                   environment |-> toLowerCase(environment.s)]
  IN /\ ecrStack.constructed => ecrStack.tags = expected
     /\ ecsStack.constructed => ecsStack.tags = expected
     /\ observabilityStack.constructed => observabilityStack.tags = expected

C4_Witness ==
  /\ AllConstructed
  /\ project = Str(<<"S","h","o","p">>)
  /\ environment = Str(<<"P","r","o","d">>)
  /\ \A tags \in {ecrStack.tags, ecsStack.tags, observabilityStack.tags} :
       tags = [project |-> <<"s","h","o","p">>,
               environment |-> <<"p","r","o","d">>]

\* C5 (as claimed): when the ecrRepoName override has no "/" between
\* namespace and repository, resolution fails and no unit receives the value.
NoSeparator ==
  IsString(overrides.ecrRepoName) /\ ~Contains(overrides.ecrRepoName.s, "/")

C6_Idempotent ==
  /\ (Resolved /\ runs >= 1) =>
       [project |-> project, version |-> version, environment |-> environment]
         = first
  /\ ecrStack.constructed =>
       /\ ecrStack.id = EcrStackId(first.environment, first.project)
       /\ ecrStack.tags = EcrStackTags(first.project, first.environment)
       /\ ecrStack.repositoryName =
            EcrRepositoryName(first.project, first.environment)
  /\ ecsStack.constructed =>
       /\ ecsStack.id = EcsStackId(first.environment, first.project)
       /\ ecsStack.tags = EcsStackTags(first.project, first.environment)
       /\ ecsStack.containerName =
            EcsContainerName(first.project, first.environment)
  /\ observabilityStack.constructed =>
       /\ observabilityStack.id =
            ObservabilityStackId(first.environment, first.project)
       /\ observabilityStack.tags =
            ObservabilityStackTags(first.project, first.environment)

C6_Witness ==
  /\ runs >= 2
  /\ AllConstructed
  /\ overrides.project = Str(<<"S","h","o","p">>)
  /\ overrides.environment = Undefined
  /\ first.project = Str(<<"S","h","o","p">>)
  /\ project = first.project
  /\ environment = Str(<<"d","e","v">>)
  /\ ecsStack.id = <<"d","e","v","-","s","h","o","p","-","e","c","s">>

\* C7: project, version and environment are written to the context exactly
\* once each, all before the first unit is constructed; no constructor writes
\* to the context, and each unit reads the project and environment resolved
\* at program start.
C7_WrittenOnceBeforeUnits ==
  /\ \A k \in Keys : writes[k] <= 1
  /\ \A k \in Keys \ {"project", "version", "environment"} :
       writes[k] = 0 /\ context[k] = overrides[k]
  /\ (Resolved \/ ecrStack.constructed) =>
       /\ \A k \in {"project", "version", "environment"} : writes[k] = 1
       /\ context.project = project
       /\ context.version = version
       /\ context.environment = environment
  /\ \A unit \in {ecrStack, ecsStack, observabilityStack} :
       unit.constructed =>
         /\ unit.readProject = project
         /\ unit.readEnvironment = environment

C7_Witness ==
  /\ AllConstructed
  /\ overrides.environment = Undefined
  /\ overrides.project = Undefined
  /\ writes.project = 1 /\ writes.version = 1 /\ writes.environment = 1
  /\ observabilityStack.readEnvironment = Str(<<"d","e","v">>)
  /\ ecrStack.readProject = Str(packageJson.name)

\* C8: the tag filters of the observability unit's resource group select the
\* tag values put on the units: the filter value for "project" is the
\* "project" tag of every unit and the filter value for "environment" is the
\* "environment" tag of every unit.
C8_TagFiltersMatchTags ==
  AllConstructed =>
    \A unit \in {ecrStack, ecsStack, observabilityStack} :
      /\ observabilityStack.tagFilters.project = unit.tags.project
      /\ observabilityStack.tagFilters.environment = unit.tags.environment

\* C9: the desired count handed to the load-balanced service is the
\* desiredCount override whenever one >= 0 is supplied (0 included), is 1
\* when none is supplied, and is never negative.
C9_DesiredCount ==
  ecsStack.constructed =>
    /\ (overrides.desiredCount.t = "number" /\ overrides.desiredCount.n >= 0)
         => ecsStack.desiredCount = overrides.desiredCount
    /\ overrides.desiredCount = Undefined => ecsStack.desiredCount = Num(1)
    /\ ecsStack.desiredCount.n >= 0

\* The configurations resolution can produce, and what each derives.
Configurations ==
  {[environment |-> ResolveEnvironment([environment |-> e]),
    project |-> ResolveProject([project |-> p], m)] :
      <<e, p, m>> \in EnvironmentOverrides \X ProjectOverrides \X Manifests}

LowerPair(env, proj) == <<toLowerCase(env.s), toLowerCase(proj.s)>>

\* No identifier of this run is the identifier, with the same suffix, of
\* configuration c.
DerivesApart(c) ==
  /\ ecrStack.id # EcrStackId(c.environment, c.project)
  /\ ecsStack.id # EcsStackId(c.environment, c.project)
  /\ observabilityStack.id # ObservabilityStackId(c.environment, c.project)
  /\ ecrStack.repositoryName # EcrRepositoryName(c.project, c.environment)
  /\ ecsStack.containerName # EcsContainerName(c.project, c.environment)

UnitIdsDistinct ==
  /\ ecrStack.id # ecsStack.id
  /\ ecrStack.id # observabilityStack.id
  /\ ecsStack.id # observabilityStack.id

\* C10 (as claimed): for a fixed suffix, two configurations whose
\* (lowercase(environment), lowercase(project)) pairs differ never derive the
\* same identifier, and within one configuration the ids of the three units
\* are pairwise distinct.
C10_Original ==
  AllConstructed =>
    /\ \A c \in Configurations :
         LowerPair(c.environment, c.project) # LowerPair(environment, project)
           => DerivesApart(c)
    /\ UnitIdsDistinct

\* C10 (amended): the same, for two configurations whose lower-cased
\* environments are equal or whose environments both contain no "-"; within
\* one configuration the ids of the three units are pairwise distinct.
C10_Amended ==
  AllConstructed =>
    /\ \A c \in Configurations :
         (/\ LowerPair(c.environment, c.project) # LowerPair(environment, project)
          /\ \/ toLowerCase(c.environment.s) = toLowerCase(environment.s)
             \/ /\ ~Contains(c.environment.s, "-")
                /\ ~Contains(environment.s, "-"))
           => DerivesApart(c)
    /\ UnitIdsDistinct

C10_Witness ==
  /\ AllConstructed
  /\ environment = Str(<<"P","r","o","d">>)
  /\ project = Str(<<"e","u","-","a","p","i">>)
  /\ ecrStack.id = <<"p","r","o","d","-","e","u","-","a","p","i","-","e","c","r">>
  /\ \E c \in Configurations :
       /\ c.environment = Str(<<"d","e","v">>)
       /\ c.project = Str(<<"a","p","i">>)
       /\ DerivesApart(c)

=============================================================================
